---- MODULE Spec2Model ----
(***************************************************************************)
(* Gradient-reading transformer of readest-app and the transformer         *)
(* registry it is registered in.                                           *)
(*                                                                         *)
(* Content is a markup string.  The transformer's regular expressions are  *)
(* modelled character by character on strings.                             *)
(***************************************************************************)
EXTENDS Integers, Sequences, FiniteSets, TLC

(***************************************************************************)
(* Characters and literal search                                           *)
(***************************************************************************)

\* the i-th character of s ("" outside the string)
Ch(s, i) == IF i >= 1 /\ i <= Len(s) THEN SubSeq(s, i, i) ELSE ""

Min(S) == CHOOSE x \in S : \A y \in S : x <= y

\* the i flag of the regular expressions: letters compare by their lower case
UpperToLower ==
  [A |-> "a", B |-> "b", C |-> "c", D |-> "d", E |-> "e", F |-> "f", G |-> "g",
   H |-> "h", I |-> "i", J |-> "j", K |-> "k", L |-> "l", M |-> "m", N |-> "n",
   O |-> "o", P |-> "p", Q |-> "q", R |-> "r", S |-> "s", T |-> "t", U |-> "u",
   V |-> "v", W |-> "w", X |-> "x", Y |-> "y", Z |-> "z"]

Lower(c) == IF c \in DOMAIN UpperToLower THEN UpperToLower[c] ELSE c

\* \w of a regular expression
WordChars ==
  DOMAIN UpperToLower \cup {UpperToLower[c] : c \in DOMAIN UpperToLower}
    \cup {"0", "1", "2", "3", "4", "5", "6", "7", "8", "9", "_"}

\* \s of a regular expression
Whitespace == {" ", "\t", "\n", "\r", "\f"}

\* the literal lit stands at position i of s
At(s, i, lit) ==
  /\ i >= 1
  /\ i + Len(lit) - 1 <= Len(s)
  /\ SubSeq(s, i, i + Len(lit) - 1) = lit

\* the same, letters compared by their lower case (lit is written in lower case)
AtCI(s, i, lit) ==
  /\ i >= 1
  /\ i + Len(lit) - 1 <= Len(s)
  /\ \A k \in 1..Len(lit) : Lower(Ch(s, i + k - 1)) = Ch(lit, k)

\* the first position >= from where lit stands, 0 when there is none
IndexOf(s, lit, from) ==
  LET hits == {k \in from..(Len(s) - Len(lit) + 1) : At(s, k, lit)}
  IN  IF hits = {} THEN 0 ELSE Min(hits)

IndexOfCI(s, lit, from) ==
  LET hits == {k \in from..(Len(s) - Len(lit) + 1) : AtCI(s, k, lit)}
  IN  IF hits = {} THEN 0 ELSE Min(hits)

\* the number of places where lit stands in s
Occurrences(s, lit) == Cardinality({k \in 1..Len(s) : At(s, k, lit)})

(***************************************************************************)
(* The regular expressions of gradient.ts                                  *)
(***************************************************************************)

\* /<p([^>]*)>([\s\S]*?)<\/p>/gi matches at position i: "<p", then the
\* characters up to the first ">", then the characters up to the first "</p>"
ParagraphOk(s, i) ==
  /\ AtCI(s, i, "<p")
  /\ IndexOf(s, ">", i + 2) # 0
  /\ IndexOfCI(s, "</p>", IndexOf(s, ">", i + 2) + 1) # 0

\* the match found at position i: where it starts, its first ">", its "</p>"
ParagraphAt(s, i) ==
  LET gt == IndexOf(s, ">", i + 2)
  IN  [ok |-> TRUE, index |-> i, gt |-> gt, close |-> IndexOfCI(s, "</p>", gt + 1)]

\* the next match at or after lastIndex (regexp exec with the g flag)
paragraphRegex(s, lastIndex) ==
  LET starts == {i \in lastIndex..Len(s) : ParagraphOk(s, i)}
  IN  IF starts = {} THEN [ok |-> FALSE, index |-> 0, gt |-> 0, close |-> 0]
      ELSE ParagraphAt(s, Min(starts))

\* the capture groups and the span of a match m
MatchAttrs(s, m) == SubSeq(s, m.index + 2, m.gt - 1)
MatchInner(s, m) == SubSeq(s, m.gt + 1, m.close - 1)
MatchText(s, m) == SubSeq(s, m.index, m.close + 3)
MatchEnd(m) == m.close + 4

\* /class="([^"]*)"/i : the leftmost class=" that has a closing quote
classRegex(attrs) ==
  LET starts == {a \in 1..Len(attrs) :
                   AtCI(attrs, a, "class=\"") /\ IndexOf(attrs, "\"", a + 7) # 0}
  IN  IF starts = {} THEN [ok |-> FALSE, index |-> 0, quote |-> 0]
      ELSE [ok |-> TRUE, index |-> Min(starts),
            quote |-> IndexOf(attrs, "\"", Min(starts) + 7)]

\* attrs.replace(classRegex, (_m, classes) => `class="${classes} ${added}"`)
AppendClass(attrs, added) ==
  LET m == classRegex(attrs)
      classes == SubSeq(attrs, m.index + 7, m.quote - 1)
  IN  SubSeq(attrs, 1, m.index - 1) \o "class=\"" \o classes \o " " \o added
        \o "\"" \o SubSeq(attrs, m.quote + 1, Len(attrs))

\* /<span\s+class=["'][^"']*\bg-clip\b[^"']*["']/ tried at position i
ClipAt(s, i) ==
  LET ws == {k \in (i + 5)..Len(s) :
               \A j \in (i + 5)..k : Ch(s, j) \in Whitespace}
      c == IF ws = {} THEN 0 ELSE Min((i + 6..(Len(s) + 1)) \ ws)
      open == c + 6
      quotes == {k \in (open + 1)..Len(s) : Ch(s, k) \in {"\"", "'"}}
      shut == IF quotes = {} THEN 0 ELSE Min(quotes)
  IN  /\ At(s, i, "<span")
      /\ ws # {}
      /\ At(s, c, "class=")
      /\ Ch(s, open) \in {"\"", "'"}
      /\ shut # 0
      /\ \E g \in (open + 1)..(shut - 6) :
           /\ At(s, g, "g-clip")
           /\ Ch(s, g - 1) \notin WordChars
           /\ Ch(s, g + 6) \notin WordChars

hasClip(inner) == \E i \in 1..Len(inner) : ClipAt(inner, i)

(***************************************************************************)
(* The replace callback of gradientTransformer.transform                   *)
(***************************************************************************)

PaletteSize == 4

lineClass == "g-line"

ShadeIndexNoWrap(paragraphIndex) == paragraphIndex

\* ${paragraphIndex % 4}
ShadeIndex(paragraphIndex) == paragraphIndex % PaletteSize

\* `g-l${paragraphIndex % 4}`
shadeClass(paragraphIndex) == "g-l" \o ToString(ShadeIndex(paragraphIndex))

\* `g-line g-l${paragraphIndex % 4}` of the classes-only variant
gradientClass(paragraphIndex) == lineClass \o " " \o shadeClass(paragraphIndex)

\* if (classRegex.test(attrs)) attrs = attrs.replace(...) else attrs = `${attrs} class="..."`
WithClass(attrs, added) ==
  IF classRegex(attrs).ok
    THEN AppendClass(attrs, added)
    ELSE attrs \o " class=\"" \o added \o "\""

WrapAlways(inner, paragraphIndex) ==
  "<span class=\"g-clip " \o shadeClass(paragraphIndex) \o "\">" \o inner \o "</span>"

\* hasClip ? inner : `<span class="g-clip ${shadeClass}">${inner}</span>`
wrappedInner(inner, paragraphIndex) ==
  IF hasClip(inner)
    THEN inner
    ELSE "<span class=\"g-clip " \o shadeClass(paragraphIndex) \o "\">" \o inner
           \o "</span>"

\* the callback of the wrapper variant
ReplacerWrapper(attrs, inner, paragraphIndex) ==
  "<p" \o WithClass(attrs, lineClass) \o ">" \o wrappedInner(inner, paragraphIndex)
    \o "</p>"

\* the callback of the classes-only variant
ReplacerClasses(attrs, inner, paragraphIndex) ==
  "<p" \o WithClass(attrs, gradientClass(paragraphIndex)) \o ">" \o inner \o "</p>"

Variants == {"wrapper", "classes"}

Replacer(v, attrs, inner, paragraphIndex) ==
  IF v = "wrapper"
    THEN ReplacerWrapper(attrs, inner, paragraphIndex)
    ELSE ReplacerClasses(attrs, inner, paragraphIndex)

EnabledAlways(viewSettings) == TRUE

\* ctx.viewSettings.gradientEnabled as a condition: an absent field is undefined
Enabled(viewSettings) ==
  IF "gradientEnabled" \in DOMAIN viewSettings
    THEN viewSettings.gradientEnabled
    ELSE FALSE

RestDropped(s, lastIndex) == ""

\* the text after the last match, copied by replace
Rest(s, lastIndex) == SubSeq(s, lastIndex, Len(s))

\* content.replace(regex, callback) from lastIndex on, the counter at paragraphIndex
RECURSIVE ReplaceFrom(_, _, _, _)
ReplaceFrom(v, s, lastIndex, paragraphIndex) ==
  LET m == paragraphRegex(s, lastIndex)
  IN  IF ~m.ok
        THEN Rest(s, lastIndex)
        ELSE SubSeq(s, lastIndex, m.index - 1)
               \o Replacer(v, MatchAttrs(s, m), MatchInner(s, m), paragraphIndex)
               \o ReplaceFrom(v, s, MatchEnd(m), paragraphIndex + 1)

\* gradientTransformer.transform(ctx), one whole invocation run alone
transform(v, ctx) ==
  IF ~Enabled(ctx.viewSettings)
    THEN ctx.content
    ELSE ReplaceFrom(v, ctx.content, 1, 0)

(***************************************************************************)
(* Inputs                                                                  *)
(***************************************************************************)

MaxBlocks == 5
MaxTags == 6
MaxPasses == 2
NumCalls == 2

\* the view settings a context can carry; the last has no gradientEnabled field
ViewSettings ==
  {[gradientEnabled |-> TRUE], [gradientEnabled |-> FALSE],
   [gradientReadingEnabled |-> TRUE]}

RECURSIVE Join(_)
Join(seq) == IF seq = <<>> THEN "" ELSE Head(seq) \o Join(Tail(seq))

Words(alphabet, n) == UNION {[1..k -> alphabet] : k \in 0..n}

\* up to MaxBlocks whole paragraphs: plain ones, and empty ones that have a class
Blocks == {"<p>Hello</p>", "<p class=\"note\"></p>"}
BlockDocs == {Join(w) : w \in Words(Blocks, MaxBlocks)}

\* up to MaxTags opening and closing paragraph tags, nested or unbalanced
Tags == {"<p>a", "</p>"}
TagDocs == {Join(w) : w \in Words(Tags, MaxTags)}

\* attribute forms, other tag names, text around blocks, a clip span of the book
Examples ==
  {"<p>Hello</p><p>World</p>",
   "<p class=\"foo bar\">x</p>",
   "<p class='foo bar'>x</p>",
   "<p data-class=\"x\">Hello</p>",
   "<p id=\"a\">x</p><p class=\"note\" lang=\"en\">y</p>",
   "<P ID=\"a\" CLASS=\"Foo\">x</P>",
   "<pre>code</pre><p>y</p>",
   "<pre>code</pre>",
   "<div>text</div>",
   "intro<p>x</p>mid<p>y</p>tail",
   "<p><span class=\"g-clip g-l3\">x</span></p>",
   "<p>x</p><p><span class='g-clip'>a</span><span class='g-clip'>b</span></p>",
   "<p><span id=\"a\" class=\"g-clip\">x</span></p>",
   "<p>about g-clip</p><p>y</p>",
   "<p class=\"g-l1 g-line\">x</p>",
   "<p title=\"a>b\" class=\"x\">y</p>",
   "<p>one</p>\n<p>two</p>",
   "<p>unterminated"}

Docs == BlockDocs \cup TagDocs \cup Examples

\* the documents of the runs that are in flight together
SmallDocs ==
  {"<p>Hello</p><p>World</p>", "<p>a</p><p>b</p><p>c</p><p>d</p><p>e</p>",
   "<p class=\"note\">x</p>", "<div>text</div>"}

(***************************************************************************)
(* State                                                                   *)
(***************************************************************************)

VARIABLES
  variant,    \* which transform of gradient.ts is built: "wrapper" or "classes"
  calls,      \* the invocations of gradientTransformer.transform, by slot
  registry,   \* availableTransformers
  run,        \* the pipeline run over the registry
  reader      \* the reader's view settings of the book and its GradientToggler

vars == <<variant, calls, registry, run, reader>>

Slots == 1..NumCalls

NoCall ==
  [pc |-> "idle", content |-> "", viewSettings |-> [gradientEnabled |-> FALSE],
   lastIndex |-> 1, paragraphIndex |-> 0, out |-> "", matches |-> <<>>,
   emitted |-> <<>>, pass |-> 0, origin |-> ""]

NoRun ==
  [pc |-> "idle", stage |-> 0, content |-> "",
   viewSettings |-> [gradientEnabled |-> FALSE], original |-> "",
   given |-> [gradientEnabled |-> FALSE], promise |-> "", started |-> <<>>,
   log |-> <<>>]

\* a mounted GradientToggler whose book has gradient reading off
NoReader ==
  [viewSettings |-> [gradientReadingEnabled |-> FALSE],
   gradientReadingEnabled |-> FALSE, persistEffect |-> FALSE,
   syncEffect |-> FALSE, saved |-> <<>>, isMobile |-> FALSE,
   hoveredBookKey |-> "book", clicks |-> 0]

availableTransformersSwapped ==
  <<"punctuation", "footnote", "language", "gradient", "whitespace">>

\* index.ts: the registered transformers, in order
availableTransformers ==
  <<"punctuation", "footnote", "language", "whitespace", "gradient">>

\* the registry that also registers the sanitizer
availableTransformersSanitized ==
  <<"punctuation", "footnote", "language", "whitespace", "gradient", "sanitizer">>

Init ==
  /\ variant \in Variants
  /\ calls = [i \in Slots |-> NoCall]
  /\ registry = availableTransformers
  /\ run = NoRun
  /\ reader = NoReader

(***************************************************************************)
(* gradientTransformer.transform, one invocation per slot.  The function   *)
(* has no await: its body runs to completion before another call starts,   *)
(* and its promise is consumed later by the awaiting caller.               *)
(***************************************************************************)

Max(S) == CHOOSE x \in S : \A y \in S : x >= y

SharedIndex(counters) == Max({counters[j] : j \in DOMAIN counters})

\* let paragraphIndex = 0; counters are those of the invocations in flight
InitialIndex(counters) == 0

Invoke(i, c, vs, n, o) ==
  /\ \A j \in Slots : calls[j].pc # "scanning"
  /\ calls' = [calls EXCEPT ![i] =
       IF ~Enabled(vs)
         THEN [pc |-> "resolved", content |-> c, viewSettings |-> vs,
               lastIndex |-> 1, paragraphIndex |-> 0, out |-> c,
               matches |-> <<>>, emitted |-> <<>>, pass |-> n, origin |-> o]
         ELSE [pc |-> "scanning", content |-> c, viewSettings |-> vs,
               lastIndex |-> 1,
               paragraphIndex |-> InitialIndex([j \in Slots |-> calls[j].paragraphIndex]),
               out |-> "", matches |-> <<>>, emitted |-> <<>>, pass |-> n,
               origin |-> o]]
  /\ UNCHANGED <<variant, registry, run, reader>>

\* a caller invokes transform on the content of a document
Call(i, c, vs) ==
  /\ calls[i].pc = "idle"
  /\ Invoke(i, c, vs, 1, c)

\* the caller's await receives the result, and the caller invokes transform
\* again on it with the same settings
Reapply(i) ==
  /\ calls[i].pc = "resolved"
  /\ calls[i].pass < MaxPasses
  /\ Invoke(i, calls[i].out, calls[i].viewSettings, calls[i].pass + 1,
            calls[i].origin)

\* replace finds the next match and calls the callback on it
Match(i) ==
  LET c == calls[i]
      m == paragraphRegex(c.content, c.lastIndex)
      text == Replacer(variant, MatchAttrs(c.content, m), MatchInner(c.content, m),
                       c.paragraphIndex)
  IN  /\ c.pc = "scanning"
      /\ m.ok
      /\ calls' = [calls EXCEPT ![i] =
           [c EXCEPT !.out = c.out \o SubSeq(c.content, c.lastIndex, m.index - 1)
                               \o text,
                     !.lastIndex = MatchEnd(m),
                     !.paragraphIndex = c.paragraphIndex + 1,
                     !.matches = Append(c.matches, m),
                     !.emitted = Append(c.emitted, text)]]
      /\ UNCHANGED <<variant, registry, run, reader>>

\* replace finds no further match; transform returns the result
Return(i) ==
  LET c == calls[i]
      m == paragraphRegex(c.content, c.lastIndex)
  IN  /\ c.pc = "scanning"
      /\ ~m.ok
      /\ calls' = [calls EXCEPT ![i] =
           [c EXCEPT !.out = c.out \o Rest(c.content, c.lastIndex),
                     !.pc = "resolved"]]
      /\ UNCHANGED <<variant, registry, run, reader>>

\* the caller's await receives the result; the invocation is over
Await(i) ==
  /\ calls[i].pc = "resolved"
  /\ calls' = [calls EXCEPT ![i] = NoCall]
  /\ UNCHANGED <<variant, registry, run, reader>>

Next ==
  \/ \E c \in Docs, vs \in ViewSettings : Call(1, c, vs)
  \/ Reapply(1)
  \/ Match(1)
  \/ Return(1)
  \/ Await(1)

Spec == Init /\ [][Next]_vars

\* several invocations, each started while the results of others are pending
NextCalls ==
  \E i \in Slots :
    \/ \E c \in SmallDocs, vs \in ViewSettings : Call(i, c, vs)
    \/ Match(i)
    \/ Return(i)
    \/ Await(i)

SpecCalls == Init /\ [][NextCalls]_vars

(***************************************************************************)
(* The pipeline run over availableTransformers: each transformer is awaited *)
(* in turn and its result becomes the content of the next one's context.   *)
(***************************************************************************)

\* a peer transformer (punctuation, footnote, language, whitespace,
\* sanitizer): a rewrite of its own, told apart here by the mark it leaves
PeerTransform(name, c) == c \o "<!--" \o name \o "-->"

\* transformer.transform(ctx) of the registered transformer called name
Apply(name, ctx) ==
  IF name = "gradient"
    THEN transform(variant, ctx)
    ELSE PeerTransform(name, ctx.content)

\* a run starts on the content of a document, with the reader's settings
Start(c, vs) ==
  /\ run.pc = "idle"
  /\ run' = [NoRun EXCEPT !.pc = "ready", !.content = c, !.original = c,
                          !.viewSettings = vs, !.given = vs]
  /\ UNCHANGED <<variant, calls, registry, reader>>

\* the run calls the next registered transformer on its context
StageCall ==
  /\ run.pc = "ready"
  /\ run.stage < Len(registry)
  /\ LET name == registry[run.stage + 1]
     IN  run' = [run EXCEPT
           !.pc = "awaiting",
           !.promise = Apply(name, [content |-> run.content,
                                    viewSettings |-> run.viewSettings]),
           !.started = Append(run.started, name)]
  /\ UNCHANGED <<variant, calls, registry, reader>>

\* the await returns; the result is the content of the next stage
StageReturn ==
  /\ run.pc = "awaiting"
  /\ run' = [run EXCEPT
       !.pc = "ready",
       !.stage = run.stage + 1,
       !.content = run.promise,
       !.log = Append(run.log, [name |-> registry[run.stage + 1],
                                input |-> run.content, output |-> run.promise])]
  /\ UNCHANGED <<variant, calls, registry, reader>>

\* every registered transformer has run; the content goes to the renderer
Finish ==
  /\ run.pc = "ready"
  /\ run.stage = Len(registry)
  /\ run' = [run EXCEPT !.pc = "done"]
  /\ UNCHANGED <<variant, calls, registry, reader>>

InitPipeline ==
  /\ variant \in Variants
  /\ calls = [i \in Slots |-> NoCall]
  /\ registry \in {availableTransformers, availableTransformersSanitized}
  /\ run = NoRun
  /\ reader = NoReader

NextPipeline ==
  \/ \E c \in SmallDocs, vs \in ViewSettings : Start(c, vs)
  \/ StageCall
  \/ StageReturn
  \/ Finish

SpecPipeline == InitPipeline /\ [][NextPipeline]_vars

(***************************************************************************)
(* GradientToggler: the button of the reader that switches gradient        *)
(* reading, its two effects, and the transform called with the view        *)
(* settings of the book.                                                   *)
(***************************************************************************)

MaxClicks == 3

\* the view settings a book can have when the toggler mounts: the field the
\* toggler keeps, and the field the transformer reads set or not
StoredViewSettings ==
  [gradientReadingEnabled : BOOLEAN]
    \cup [gradientReadingEnabled : BOOLEAN, gradientEnabled : BOOLEAN]

\* onClick={() => setGradientReadingEnabled(!gradientReadingEnabled)}; the
\* effects of a render are flushed before the next click is handled
Click ==
  /\ ~reader.persistEffect
  /\ ~reader.syncEffect
  /\ reader.clicks < MaxClicks
  /\ reader' = [reader EXCEPT
       !.gradientReadingEnabled = ~reader.gradientReadingEnabled,
       !.persistEffect = TRUE,
       !.clicks = reader.clicks + 1]
  /\ UNCHANGED <<variant, calls, registry, run>>

\* useEffect(..., [gradientReadingEnabled]): save the new value into the view
\* settings of the book
PersistEffect ==
  /\ reader.persistEffect
  /\ reader' =
       IF reader.gradientReadingEnabled = reader.viewSettings.gradientReadingEnabled
         THEN [reader EXCEPT !.persistEffect = FALSE]
         ELSE [reader EXCEPT
                 !.persistEffect = FALSE,
                 !.hoveredBookKey = IF reader.isMobile THEN "" ELSE @,
                 !.saved = Append(@, <<"gradientReadingEnabled",
                                       reader.gradientReadingEnabled>>),
                 !.viewSettings = [@ EXCEPT !.gradientReadingEnabled =
                                      reader.gradientReadingEnabled],
                 !.syncEffect = TRUE]
  /\ UNCHANGED <<variant, calls, registry, run>>

\* useEffect(..., [viewSettings.gradientReadingEnabled]): the button follows
\* the view settings
SyncEffect ==
  /\ ~reader.persistEffect
  /\ reader.syncEffect
  /\ reader' = [reader EXCEPT
       !.syncEffect = FALSE,
       !.gradientReadingEnabled = reader.viewSettings.gradientReadingEnabled,
       !.persistEffect =
         reader.gradientReadingEnabled # reader.viewSettings.gradientReadingEnabled]
  /\ UNCHANGED <<variant, calls, registry, run>>

InitReader ==
  /\ variant \in Variants
  /\ calls = [i \in Slots |-> NoCall]
  /\ registry = availableTransformers
  /\ run = NoRun
  /\ \E vs \in StoredViewSettings, mobile \in BOOLEAN :
       reader = [NoReader EXCEPT !.viewSettings = vs,
                                 !.gradientReadingEnabled = vs.gradientReadingEnabled,
                                 !.isMobile = mobile]

\* the book's content is transformed with the view settings of the book
NextReader ==
  \/ Click
  \/ PersistEffect
  \/ SyncEffect
  \/ \E c \in SmallDocs : Call(1, c, reader.viewSettings)
  \/ Match(1)
  \/ Return(1)
  \/ Await(1)

SpecReader == InitReader /\ [][NextReader]_vars

(***************************************************************************)
(* Properties                                                              *)
(***************************************************************************)

\* the invocation of slot i has returned
Resolved(i) == calls[i].pc = "resolved"

\* the flag of the settings is false or absent, read off the settings themselves
FlagOff(vs) == \/ "gradientEnabled" \notin DOMAIN vs
               \/ vs.gradientEnabled = FALSE

\* the shade token the k-th match (k counted from 1) is to carry
ShadeToken(k) == "g-l" \o <<"0", "1", "2", "3">>[((k - 1) % 4) + 1]

AllShadeTokens == {"g-l0", "g-l1", "g-l2", "g-l3"}

\* C1: with gradientEnabled false or absent, transform returns exactly the
\* content it was given, in both variants, and rewrites no block.
C1_DisabledIdentity ==
  \A i \in Slots :
    (Resolved(i) /\ FlagOff(calls[i].viewSettings))
      => /\ calls[i].out = calls[i].content
         /\ calls[i].emitted = <<>>

\* C1 witness: an invocation whose settings have no gradientEnabled field has
\* returned, on a content that holds a paragraph the transform would rewrite.
C1_Witness ==
  \E i \in Slots :
    /\ Resolved(i)
    /\ "gradientEnabled" \notin DOMAIN calls[i].viewSettings
    /\ paragraphRegex(calls[i].content, 1).ok
    /\ calls[i].out = calls[i].content

ClassAttrs(attrs) ==
  {a \in 2..Len(attrs) :
     /\ Ch(attrs, a - 1) \in Whitespace
     /\ AtCI(attrs, a, "class=")
     /\ Ch(attrs, a + 6) \in {"\"", "'"}
     /\ IndexOf(attrs, Ch(attrs, a + 6), a + 7) # 0}

ClassValue(attrs, a) ==
  SubSeq(attrs, a + 7, IndexOf(attrs, Ch(attrs, a + 6), a + 7) - 1)

\* the attribute text of the opening tag of an emitted block
EmittedAttrs(block) == SubSeq(block, 3, IndexOf(block, ">", 3) - 1)

\* C3 as stated, for the classes-only variant: a matched block whose opening
\* tag has a class attribute is emitted with one class attribute, whose value is
\* the original value followed by g-line and the shade token.
C3_ClassMerge ==
  \A i \in Slots :
    (variant = "classes" /\ ~FlagOff(calls[i].viewSettings)) =>
      \A k \in 1..Len(calls[i].emitted) :
        LET attrs == MatchAttrs(calls[i].content, calls[i].matches[k])
            new == EmittedAttrs(calls[i].emitted[k])
        IN  ClassAttrs(attrs) # {} =>
              /\ Cardinality(ClassAttrs(new)) = 1
              /\ \A a \in ClassAttrs(new) :
                   ClassValue(new, a)
                     = ClassValue(attrs, Min(ClassAttrs(attrs))) \o " g-line "
                         \o ShadeToken(k)

\* C4 as stated, for the classes-only variant: a matched block whose opening
\* tag has no class attribute is emitted with class="g-line g-l<k mod 4>" added
\* to its tag, its other attributes and its inner markup unchanged.
C4_ClassSynthesis ==
  \A i \in Slots :
    (variant = "classes" /\ ~FlagOff(calls[i].viewSettings)) =>
      \A k \in 1..Len(calls[i].emitted) :
        LET attrs == MatchAttrs(calls[i].content, calls[i].matches[k])
            inner == MatchInner(calls[i].content, calls[i].matches[k])
        IN  ClassAttrs(attrs) = {} =>
              calls[i].emitted[k]
                = "<p" \o attrs \o " class=\"g-line " \o ShadeToken(k) \o "\">"
                    \o inner \o "</p>"

RECURSIVE Weave(_, _, _, _, _)
Weave(s, ms, pieces, k, from) ==
  IF k > Len(ms)
    THEN SubSeq(s, from, Len(s))
    ELSE SubSeq(s, from, ms[k].index - 1) \o pieces[k]
           \o Weave(s, ms, pieces, k + 1, ms[k].close + 4)

\* C6: with the flag on, the output is the input with each matched block
\* replaced in place: the text before, between and after the matched blocks is
\* the input's, unchanged and in the same positions; a content in which nothing
\* matches is returned as it is.
C6_PassThrough ==
  \A i \in Slots :
    (Resolved(i) /\ ~FlagOff(calls[i].viewSettings)) =>
      /\ \A k \in 1..Len(calls[i].matches) :
           /\ calls[i].matches[k].index
                >= (IF k = 1 THEN 1 ELSE calls[i].matches[k - 1].close + 4)
           /\ calls[i].matches[k].close + 3 <= Len(calls[i].content)
      /\ calls[i].out
           = Weave(calls[i].content, calls[i].matches, calls[i].emitted, 1, 1)
      /\ (\A p \in 1..Len(calls[i].content) : ~ParagraphOk(calls[i].content, p))
           => calls[i].out = calls[i].content

\* C6 witness: two blocks have been rewritten in a content that has text
\* before the first, between them and after the second.
C6_Witness ==
  \E i \in Slots :
    /\ Resolved(i)
    /\ ~FlagOff(calls[i].viewSettings)
    /\ Len(calls[i].matches) = 2
    /\ calls[i].matches[1].index > 1
    /\ calls[i].matches[2].index > calls[i].matches[1].close + 4
    /\ calls[i].matches[2].close + 3 < Len(calls[i].content)
    /\ calls[i].out # calls[i].content

\* C7: however invocations follow one another or are in flight together, each
\* one's counter counts its own matches only, each returns what it would return
\* run alone, and invocations given the same content and settings return the same.
C7_CallScopedCounter ==
  \A i \in Slots :
    /\ calls[i].pc = "scanning" => calls[i].paragraphIndex = Len(calls[i].emitted)
    /\ Resolved(i) =>
         calls[i].out
           = transform(variant, [content |-> calls[i].content,
                                 viewSettings |-> calls[i].viewSettings])
    /\ \A j \in Slots :
         (/\ Resolved(i)
          /\ Resolved(j)
          /\ calls[i].content = calls[j].content
          /\ calls[i].viewSettings = calls[j].viewSettings)
           => calls[i].out = calls[j].out

\* C7 witness: one invocation is rewriting its second block or a later one while the
\* result of another, which rewrote two blocks or more of another document,
\* is still pending.
C7_Witness ==
  \E i, j \in Slots :
    /\ i # j
    /\ Resolved(i)
    /\ calls[i].paragraphIndex >= 2
    /\ calls[j].pc = "scanning"
    /\ calls[j].paragraphIndex >= 1
    /\ calls[j].content # calls[i].content

\* the opening tags of p elements, the closing tags, and the nesting depth
PTagOpens(c) ==
  {i \in 1..Len(c) : AtCI(c, i, "<p") /\ Ch(c, i + 2) \in Whitespace \cup {">"}}

PTagCloses(c) == {i \in 1..Len(c) : AtCI(c, i, "</p>")}

Depth(c, i) ==
  Cardinality({o \in PTagOpens(c) : o < i}) - Cardinality({x \in PTagCloses(c) : x < i})

Balanced(c) ==
  /\ \A x \in PTagCloses(c) : Depth(c, x) >= 1
  /\ Cardinality(PTagOpens(c)) = Cardinality(PTagCloses(c))

Outermost(c) == {o \in PTagOpens(c) : Depth(c, o) = 0}

\* C9 as stated, for a content of balanced p elements and no other tag that
\* begins with <p: the blocks rewritten are the outermost ones, one counter
\* increment each; a block nested in another is not rewritten or counted.
C9_NestedCountedOnce ==
  \A i \in Slots :
    (/\ Resolved(i)
     /\ ~FlagOff(calls[i].viewSettings)
     /\ Balanced(calls[i].content)
     /\ \A p \in 1..Len(calls[i].content) :
          AtCI(calls[i].content, p, "<p") => p \in PTagOpens(calls[i].content))
      => /\ {calls[i].matches[k].index : k \in 1..Len(calls[i].matches)}
              = Outermost(calls[i].content)
         /\ calls[i].paragraphIndex = Cardinality(Outermost(calls[i].content))

\* C10 as stated: every block the scanner matches is an element whose tag name
\* is exactly p.
C10_OnlyParagraphs ==
  \A i \in Slots :
    ~FlagOff(calls[i].viewSettings) =>
      \A k \in 1..Len(calls[i].matches) :
        calls[i].matches[k].index \in PTagOpens(calls[i].content)

\* the order of the stages that C8 names
StageOrder ==
  <<"punctuation", "footnote", "language", "whitespace", "gradient", "sanitizer">>

\* C8: a run applies the transformers in the order punctuation, footnote,
\* language, whitespace, gradient and then sanitizer where it is registered; a
\* stage is started only when every stage before it has returned; each stage
\* receives the output of the stage before it, not the original content; the
\* settings stay as they were given.
C8_PipelineOrdering ==
  /\ Len(run.log) <= Len(StageOrder)
  /\ \A k \in 1..Len(run.log) :
       /\ run.log[k].name = StageOrder[k]
       /\ run.log[k].input = (IF k = 1 THEN run.original ELSE run.log[k - 1].output)
       /\ k >= 2 => run.log[k].input # run.original
  /\ Len(run.started) = Len(run.log) + (IF run.pc = "awaiting" THEN 1 ELSE 0)
  /\ \A k \in 1..Len(run.started) : run.started[k] = StageOrder[k]
  /\ run.pc = "done" =>
       /\ Len(run.log) \in {5, 6}
       /\ run.content = run.log[Len(run.log)].output
  /\ run.viewSettings = run.given

\* C8 witness: a run over the registry that has the sanitizer is done, and its
\* gradient stage rewrote the content the whitespace stage had returned.
C8_Witness ==
  /\ run.pc = "done"
  /\ Len(run.log) = 6
  /\ run.log[5].name = "gradient"
  /\ run.log[5].input = run.log[4].output
  /\ run.log[5].output # run.log[5].input
  /\ run.log[6].input = run.log[5].output

\* C11 as stated: once the toggle has been clicked and its effect has saved
\* the new value into the view settings, the setting the transformer reads to
\* decide whether to run has the value of the toggle, and a transform that has
\* returned for those settings rewrote the paragraphs exactly when the toggle
\* is on.
C11_ToggleAgrees ==
  (/\ reader.clicks >= 1
   /\ ~reader.persistEffect
   /\ ~reader.syncEffect
   /\ reader.saved # <<>>)
    => /\ Enabled(reader.viewSettings) = reader.gradientReadingEnabled
       /\ \A i \in Slots :
            (/\ Resolved(i)
             /\ calls[i].viewSettings = reader.viewSettings
             /\ paragraphRegex(calls[i].content, 1).ok)
              => (calls[i].out # calls[i].content) = reader.gradientReadingEnabled
====
